---- MODULE Spec2Model ----
(***************************************************************************)
(* A model of go-sse's Stream (src/pkg/stream.go): the goroutine running   *)
(* Stream.parse reads bytes from the response body, strips a leading       *)
(* byte-order mark, validates UTF-8, frames lines with splitLines,         *)
(* interprets each line (interpret / process / dispatch) and sends the     *)
(* dispatched events on the events channel, which a consumer drains.       *)
(*                                                                         *)
(* Bytes are the integers 0..255; a byte string is a sequence of bytes.    *)
(***************************************************************************)
EXTENDS Integers, Sequences, FiniteSets, TLC

\* ------------------------------------------------------------------ bytes

CR == 13
LF == 10
Colon == 58
Space == 32
\* utf8.RuneSelf: bytes below it are single-byte runes.
RuneSelf == 128

\* Letters used to build inputs.
ChX == 120
Ch1 == 49
ChPlus == 43
ChMinus == 45
Ch0 == 48
Ch9 == 57

utf8BOM == <<254, 255>>
eventTypeName == <<101, 118, 101, 110, 116>>
dataType == <<100, 97, 116, 97>>
idType == <<105, 100>>
retryType == <<114, 101, 116, 114, 121>>
\* The literal "message" of dispatch.
messageType == <<109, 101, 115, 115, 97, 103, 101>>

Take(s, n) == SubSeq(s, 1, n)
Drop(s, n) == SubSeq(s, n + 1, Len(s))

\* ----------------------------------------------------------------- bounds

\* The reader stops delivering once the data buffer holds more than MaxData bytes.
MaxData == 3
\* A Stream built outside New may have a buffered events channel, of a capacity
\* up to MaxCap.
MaxCap == 1

\* ------------------------------------------------------------ line framer

NoToken == [advance |-> 0, token |-> <<>>, ok |-> FALSE]

\* splitLines as bufio.ScanLines ends a stream: at the end of the input the
\* unterminated rest is yielded as a last line.
splitLinesFlush(data, atEOF) ==
  IF \E i \in 1..Len(data) : data[i] \in {CR, LF}
  THEN LET i == CHOOSE k \in 1..Len(data) :
                  /\ data[k] \in {CR, LF}
                  /\ \A j \in 1..(k - 1) : data[j] \notin {CR, LF}
       IN IF data[i] = CR
          THEN IF i >= Len(data)
               THEN IF atEOF
                    THEN [advance |-> i, token |-> Take(data, i - 1), ok |-> TRUE]
                    ELSE NoToken
               ELSE IF data[i + 1] = LF
                    THEN [advance |-> i + 1, token |-> Take(data, i), ok |-> TRUE]
                    ELSE [advance |-> i, token |-> Take(data, i - 1), ok |-> TRUE]
          ELSE [advance |-> i, token |-> Take(data, i - 1), ok |-> TRUE]
  ELSE IF atEOF /\ Len(data) > 0
       THEN [advance |-> Len(data), token |-> data, ok |-> TRUE]
       ELSE NoToken

\* The 1-based index of the first CR or LF of data, 0 if there is none.
FirstTerminator(data) ==
  IF \E i \in 1..Len(data) : data[i] \in {CR, LF}
  THEN CHOOSE i \in 1..Len(data) :
         /\ data[i] \in {CR, LF}
         /\ \A j \in 1..(i - 1) : data[j] \notin {CR, LF}
  ELSE 0

\* splitLines(data, atEOF): the bufio.SplitFunc. The code never reads atEOF.
\* With the Go index i0 = i - 1: data[:i0] = Take(data, i - 1),
\* data[:i0+1] = Take(data, i).
splitLines(data, atEOF) ==
  LET i == FirstTerminator(data) IN
  IF i = 0 THEN NoToken
  ELSE IF data[i] = CR
       THEN IF i >= Len(data) THEN NoToken
            ELSE IF data[i + 1] = LF
                 THEN [advance |-> i + 1, token |-> Take(data, i), ok |-> TRUE]
                 ELSE [advance |-> i, token |-> Take(data, i - 1), ok |-> TRUE]
       ELSE [advance |-> i, token |-> Take(data, i - 1), ok |-> TRUE]

\* ------------------------------------------------------- line interpreter

\* The Stream's parsing state: the fields data, eventType, lastEventID and
\* reconnectionTime of the struct.
Store(d, e, i, r) ==
  [data |-> d, eventType |-> e, lastEventID |-> i, reconnectionTime |-> r]

\* The 1-based index of the first colon of line, 0 if there is none.
FirstColon(line) ==
  IF \E i \in 1..Len(line) : line[i] = Colon
  THEN CHOOSE i \in 1..Len(line) :
         /\ line[i] = Colon
         /\ \A j \in 1..(i - 1) : line[j] # Colon
  ELSE 0

\* The field and value interpret passes to process for a field line
\* (bytes.SplitN(line, ":", 2), then the removal of one leading space).
\* value[0] on an empty value is an index out of range: a run-time panic.
splitField(line) ==
  LET c == FirstColon(line) IN
  IF c = 0
  THEN [field |-> line, value |-> <<>>, panic |-> FALSE]
  ELSE LET field == Take(line, c - 1)
           value == Drop(line, c)
       IN IF Len(value) = 0
          THEN [field |-> field, value |-> value, panic |-> TRUE]
          ELSE IF value[1] = Space
               THEN [field |-> field, value |-> Drop(value, 1), panic |-> FALSE]
               ELSE [field |-> field, value |-> value, panic |-> FALSE]

\* ------------------------------------------------------- field processor

IsDigit(b) == b >= Ch0 /\ b <= Ch9

RECURSIVE DigitsValue(_)
DigitsValue(s) ==
  IF Len(s) = 0 THEN 0
  ELSE 10 * DigitsValue(Take(s, Len(s) - 1)) + (s[Len(s)] - Ch0)

\* strconv.Atoi: an optional sign, then one or more decimal digits.
Atoi(s) ==
  LET signed == Len(s) > 0 /\ s[1] \in {ChPlus, ChMinus}
      digits == IF signed THEN Drop(s, 1) ELSE s
  IN IF Len(digits) = 0 \/ \E i \in 1..Len(digits) : ~IsDigit(digits[i])
     THEN [ok |-> FALSE, n |-> 0]
     ELSE [ok |-> TRUE,
           n |-> IF signed /\ s[1] = ChMinus
                 THEN 0 - DigitsValue(digits) ELSE DigitsValue(digits)]

\* process with the data field's value appended without its line feed.
processNoLF(st, name, value) ==
  IF name = eventTypeName
  THEN [st EXCEPT !.eventType = value]
  ELSE IF name = dataType
  THEN [st EXCEPT !.data = st.data \o value]
  ELSE IF name = idType
  THEN [st EXCEPT !.lastEventID = value]
  ELSE IF name = retryType
  THEN IF Atoi(value).ok /\ Atoi(value).n >= 0
       THEN [st EXCEPT !.reconnectionTime = Atoi(value).n]
       ELSE st
  ELSE st

\* process with the id written to the last event ID buffer without the Reset.
processIdAppend(st, name, value) ==
  IF name = eventTypeName
  THEN [st EXCEPT !.eventType = value]
  ELSE IF name = dataType
  THEN [st EXCEPT !.data = st.data \o value \o <<LF>>]
  ELSE IF name = idType
  THEN [st EXCEPT !.lastEventID = st.lastEventID \o value]
  ELSE IF name = retryType
  THEN IF Atoi(value).ok /\ Atoi(value).n >= 0
       THEN [st EXCEPT !.reconnectionTime = Atoi(value).n]
       ELSE st
  ELSE st

\* process taking the name `Data` for `data`.
processFoldCase(st, name, value) ==
  IF name = eventTypeName
  THEN [st EXCEPT !.eventType = value]
  ELSE IF name = dataType \/ name = <<68, 97, 116, 97>>
  THEN [st EXCEPT !.data = st.data \o value \o <<LF>>]
  ELSE IF name = idType
  THEN [st EXCEPT !.lastEventID = value]
  ELSE IF name = retryType
  THEN IF Atoi(value).ok /\ Atoi(value).n >= 0
       THEN [st EXCEPT !.reconnectionTime = Atoi(value).n]
       ELSE st
  ELSE st

process(st, name, value) ==
  IF name = eventTypeName
  THEN [st EXCEPT !.eventType = value]
  ELSE IF name = dataType
  THEN [st EXCEPT !.data = st.data \o value \o <<LF>>]
  ELSE IF name = idType
  THEN [st EXCEPT !.lastEventID = value]
  ELSE IF name = retryType
  THEN LET a == Atoi(value) IN
       IF a.ok /\ a.n >= 0
       THEN [st EXCEPT !.reconnectionTime = a.n]
       ELSE st
  ELSE st

\* ------------------------------------------------------------- dispatcher

Event(t, d) == [Type |-> t, Data |-> d]
NoEvent == [Type |-> <<>>, Data |-> <<>>]

RECURSIVE TrimLFs(_)
TrimLFs(s) ==
  IF Len(s) > 0 /\ s[Len(s)] = LF THEN TrimLFs(Take(s, Len(s) - 1)) ELSE s

\* dispatch removing every trailing line feed of the data buffer.
dispatchTrimAll(st) ==
  IF Len(st.data) = 0
  THEN [st |-> [st EXCEPT !.data = <<>>, !.eventType = <<>>],
        emit |-> FALSE, ev |-> NoEvent]
  ELSE [st |-> [st EXCEPT !.data = <<>>, !.eventType = <<>>],
        emit |-> TRUE,
        ev |-> Event(IF Len(st.eventType) # 0 THEN st.eventType ELSE messageType,
                     TrimLFs(st.data))]

\* dispatch leaving the event type buffer as it is when the data buffer is empty.
dispatchKeepType(st) ==
  IF Len(st.data) = 0
  THEN [st |-> st, emit |-> FALSE, ev |-> NoEvent]
  ELSE [st |-> [st EXCEPT !.data = <<>>, !.eventType = <<>>],
        emit |-> TRUE,
        ev |-> Event(IF Len(st.eventType) # 0 THEN st.eventType ELSE messageType,
                     IF st.data[Len(st.data)] = LF
                     THEN Take(st.data, Len(st.data) - 1) ELSE st.data)]

\* dispatch resetting all three buffers when the data buffer is empty.
dispatchResetAll(st) ==
  IF Len(st.data) = 0
  THEN [st |-> [st EXCEPT !.data = <<>>, !.eventType = <<>>,
                          !.lastEventID = <<>>],
        emit |-> FALSE, ev |-> NoEvent]
  ELSE [st |-> [st EXCEPT !.data = <<>>, !.eventType = <<>>],
        emit |-> TRUE,
        ev |-> Event(IF Len(st.eventType) # 0 THEN st.eventType ELSE messageType,
                     IF st.data[Len(st.data)] = LF
                     THEN Take(st.data, Len(st.data) - 1) ELSE st.data)]

\* dispatch resetting only the data buffer when it emits an event.
dispatchEmitKeepsType(st) ==
  IF Len(st.data) = 0
  THEN [st |-> [st EXCEPT !.data = <<>>, !.eventType = <<>>],
        emit |-> FALSE, ev |-> NoEvent]
  ELSE [st |-> [st EXCEPT !.data = <<>>],
        emit |-> TRUE,
        ev |-> Event(IF Len(st.eventType) # 0 THEN st.eventType ELSE messageType,
                     IF st.data[Len(st.data)] = LF
                     THEN Take(st.data, Len(st.data) - 1) ELSE st.data)]

\* dispatch up to its send on the channel: the new state, and the event to
\* send if there is one.
dispatch(st) ==
  IF Len(st.data) = 0
  THEN [st |-> [st EXCEPT !.data = <<>>, !.eventType = <<>>],
        emit |-> FALSE, ev |-> NoEvent]
  ELSE LET data == IF st.data[Len(st.data)] = LF
                   THEN Take(st.data, Len(st.data) - 1)
                   ELSE st.data
           type == IF Len(st.eventType) # 0 THEN st.eventType ELSE messageType
       IN [st |-> [st EXCEPT !.data = <<>>, !.eventType = <<>>],
           emit |-> TRUE, ev |-> Event(type, data)]

\* interpret taking a comment line for a blank one.
interpretCommentDispatches(st, line) ==
  IF Len(line) = 0 \/ line[1] = Colon
  THEN LET d == dispatch(st) IN
       [st |-> d.st, emit |-> d.emit, ev |-> d.ev, panic |-> FALSE]
  ELSE LET f == splitField(line) IN
       IF f.panic
       THEN [st |-> st, emit |-> FALSE, ev |-> NoEvent, panic |-> TRUE]
       ELSE [st |-> process(st, f.field, f.value),
             emit |-> FALSE, ev |-> NoEvent, panic |-> FALSE]

\* interpret(line): the new state, the event dispatch sends (if any), and
\* whether the call panics.
interpret(st, line) ==
  IF Len(line) = 0
  THEN LET d == dispatch(st) IN
       [st |-> d.st, emit |-> d.emit, ev |-> d.ev, panic |-> FALSE]
  ELSE IF line[1] = Colon
  THEN [st |-> st, emit |-> FALSE, ev |-> NoEvent, panic |-> FALSE]
  ELSE LET f == splitField(line) IN
       IF f.panic
       THEN [st |-> st, emit |-> FALSE, ev |-> NoEvent, panic |-> TRUE]
       ELSE [st |-> process(st, f.field, f.value),
             emit |-> FALSE, ev |-> NoEvent, panic |-> FALSE]

\* ------------------------------------------------------------------ state

VARIABLES
  pc,                \* where the goroutine running parse stands:
                     \* "peek", "scan", "send", "done" or "panic"
  raw,               \* bytes buffered by bufio.NewReader(reader) for Peek
  buf,               \* the scanner's bytes not yet consumed by a token
  serr,              \* the scanner's sticky read error: "none", "EOF", ...
  err,               \* what parse returned (meaningful once pc = "done")
  data, eventType, lastEventID, reconnectionTime,   \* the Stream's fields
  ev,                \* the event dispatch is sending (pc = "send")
  events,            \* the events channel's buffer
  cap,               \* the events channel's capacity
  hData,             \* history: the values of the data fields processed
                     \* since the last blank line
  hEvent,            \* history: the value of the last event field processed
                     \* since the last blank line
  hId,               \* history: the value of the last id field processed
  session,           \* how the Stream was built: "New" (by New, over a
                     \* response body) or "test" (as the tests build it,
                     \* over a reader that holds a fixed input)
  consumer,          \* the reader of Events(): "receiving" or "gone"
  dispatched,        \* history (test sessions): the events dispatch sent
  received,          \* the events the consumer collected (test sessions)
  input,             \* the input a test gave its reader (empty in a New session)
  readerClosed,      \* how many times reader.Close() ran
  eventsClosed       \* how many times close(s.events) ran

vars == <<pc, raw, buf, serr, err, data, eventType, lastEventID,
          reconnectionTime, ev, events, cap, hData, hEvent, hId,
          session, consumer, dispatched, received, input,
          readerClosed, eventsClosed>>

stream == <<data, eventType, lastEventID, reconnectionTime>>
history == <<hData, hEvent, hId>>
log == <<dispatched, received, input>>
closed == <<readerClosed, eventsClosed>>

\* The line bodies the input streams are made of: a comment, data fields
\* without a colon, with nothing after it, with a value and with a space before
\* the value, event, id and retry fields, and a field of an unknown name.
Bodies ==
  { <<Colon, ChX>>,
    dataType, dataType \o <<Colon>>, dataType \o <<Colon, ChX>>,
    dataType \o <<Colon, Space, ChX>>,
    eventTypeName \o <<Colon, ChX>>, eventTypeName,
    idType \o <<Colon, ChX>>, idType,
    retryType \o <<Colon, Ch1>>,
    <<ChX, Colon, ChX>> }

\* Line terminators as one read can return them, a byte that is not UTF-8,
\* and the byte-order mark.
Pieces == { <<CR>>, <<LF>>, <<LF, LF>>, <<RuneSelf>>, utf8BOM }

\* What the response body can return from one Read.
Chunks == Bodies \cup Pieces

ReadErrors == {"EOF", "ReadError"}

AtLineStart(pending) ==
  IF Len(pending) = 0 THEN TRUE ELSE pending[Len(pending)] \in {CR, LF}

\* The body delivers chunk after the bytes pending: a line body starts a line,
\* and nothing more is delivered once the data buffer holds more than MaxData
\* bytes. The reader of a test session holds its whole input from the start.
Deliverable(chunk, pending) ==
  /\ chunk \in Bodies => AtLineStart(pending)
  /\ Len(data) <= MaxData
  /\ session = "New"

Init ==
  /\ pc = "peek"
  /\ raw = <<>>
  /\ buf = <<>>
  /\ serr = "none"
  /\ err = "nil"
  /\ data = <<>>
  /\ eventType = <<>>
  /\ lastEventID = <<>>
  /\ reconnectionTime = 0
  /\ ev = NoEvent
  /\ events = <<>>
  /\ cap = 0
  /\ hData = <<>>
  /\ hEvent = <<>>
  /\ hId = <<>>
  /\ session = "New"
  /\ consumer = "receiving"
  /\ dispatched = <<>>
  /\ received = <<>>
  /\ input = <<>>
  /\ readerClosed = 0
  /\ eventsClosed = 0

\* ------------------------------------------------------------------ parse

\* parse deferring only close(s.events): the reader is left open.
DeferredChannelOnly ==
  /\ readerClosed' = readerClosed
  /\ eventsClosed' = eventsClosed + 1

\* The deferred calls of parse, run when it returns or panics:
\* reader.Close(), then close(s.events).
Deferred ==
  /\ readerClosed' = readerClosed + 1
  /\ eventsClosed' = eventsClosed + 1

\* buffered.Peek(len(utf8BOM)) reads until two bytes are buffered.
PeekRead ==
  /\ pc = "peek"
  /\ Len(raw) < Len(utf8BOM)
  /\ \E chunk \in Chunks :
       /\ Deliverable(chunk, raw)
       /\ raw' = raw \o chunk
  /\ UNCHANGED <<pc, buf, serr, err, stream, ev, events, cap, history,
                 session, consumer, log, closed>>

\* Peek fails when the body ends or fails before two bytes are buffered:
\* parse returns the error; the deferred calls close the body and the channel.
PeekFail ==
  /\ pc = "peek"
  /\ Len(raw) < Len(utf8BOM)
  /\ \E e \in ReadErrors : err' = e
  /\ pc' = "done"
  /\ Deferred
  /\ UNCHANGED <<raw, buf, serr, stream, ev, events, cap, history,
                 session, consumer, log>>

\* PeekDone without the Discard: the byte-order mark stays in the stream.
PeekDoneKeepBOM ==
  /\ pc = "peek"
  /\ Len(raw) >= Len(utf8BOM)
  /\ pc' = "scan"
  /\ UNCHANGED <<raw, buf, serr, err, stream, ev, events, cap, history,
                 session, consumer, log, closed>>

\* bytes.Equal(utf8BOM, bom), then Discard(len(utf8BOM)).
PeekDone ==
  /\ pc = "peek"
  /\ Len(raw) >= Len(utf8BOM)
  /\ raw' = IF Take(raw, Len(utf8BOM)) = utf8BOM
            THEN Drop(raw, Len(utf8BOM)) ELSE raw
  /\ pc' = "scan"
  /\ UNCHANGED <<buf, serr, err, stream, ev, events, cap, history,
                 session, consumer, log, closed>>

\* encoding.UTF8Validator over the bytes of one read: the length of the
\* longest prefix of single-byte runes. (Chunks holds no multi-byte rune: a
\* byte >= utf8.RuneSelf is invalid where it stands.)
ValidPrefix(bytes) ==
  IF \E i \in 1..Len(bytes) : bytes[i] >= RuneSelf
  THEN (CHOOSE i \in 1..Len(bytes) :
          /\ bytes[i] >= RuneSelf
          /\ \A j \in 1..(i - 1) : bytes[j] < RuneSelf) - 1
  ELSE Len(bytes)

\* What the scanner gets from a read of bytes through transform.NewReader.
Validated(bytes) ==
  [bytes |-> Take(bytes, ValidPrefix(bytes)),
   err |-> IF ValidPrefix(bytes) < Len(bytes) THEN "ErrInvalidUTF8" ELSE "none"]

\* scanner.Scan() needs more data: a read through the validator, from the
\* bytes bufio buffered for Peek first, then from the body.
Fill ==
  /\ pc = "scan"
  /\ ~splitLines(buf, serr # "none").ok
  /\ serr = "none"
  /\ \/ /\ raw # <<>>
        /\ buf' = buf \o Validated(raw).bytes
        /\ serr' = Validated(raw).err
        /\ raw' = <<>>
     \/ /\ raw = <<>>
        /\ \E chunk \in Chunks :
             /\ Deliverable(chunk, buf)
             /\ buf' = buf \o Validated(chunk).bytes
             /\ serr' = Validated(chunk).err
        /\ raw' = raw
     \/ /\ raw = <<>>
        /\ \E e \in ReadErrors : serr' = e
        /\ UNCHANGED <<raw, buf>>
  /\ UNCHANGED <<pc, err, stream, ev, events, cap, history,
                 session, consumer, log, closed>>

\* The history a processed line leaves.
HistoryAfter(line) ==
  IF Len(line) = 0 THEN <<<<>>, <<>>, hId>>
  ELSE IF line[1] = Colon \/ splitField(line).panic THEN history
  ELSE LET f == splitField(line) IN
       << IF f.field = dataType THEN Append(hData, f.value) ELSE hData,
          IF f.field = eventTypeName THEN f.value ELSE hEvent,
          IF f.field = idType THEN f.value ELSE hId >>

\* One turn of `for scanner.Scan() { s.interpret(scanner.Bytes()) }` in which
\* splitLines finds a token: the token is consumed and interpreted, up to the
\* send of dispatch if it emits an event. (The token, the result of interpret
\* and the history are bound as members of singleton sets, each evaluated once.)
ScanLine ==
  /\ pc = "scan"
  /\ splitLines(buf, serr # "none").ok
  /\ \E t \in {splitLines(buf, serr # "none")} :
     \E r \in {interpret(Store(data, eventType, lastEventID,
                                reconnectionTime), t.token)},
        h \in {HistoryAfter(t.token)} :
        /\ buf' = Drop(buf, t.advance)
        /\ data' = r.st.data
        /\ eventType' = r.st.eventType
        /\ lastEventID' = r.st.lastEventID
        /\ reconnectionTime' = r.st.reconnectionTime
        /\ ev' = r.ev
        /\ pc' = IF r.panic THEN "panic" ELSE IF r.emit THEN "send" ELSE "scan"
        /\ hData' = h[1]
        /\ hEvent' = h[2]
        /\ hId' = h[3]
        /\ dispatched' = IF r.emit /\ session = "test"
                         THEN Append(dispatched, r.ev) ELSE dispatched
        /\ IF r.panic THEN Deferred ELSE UNCHANGED closed
  /\ UNCHANGED <<raw, serr, err, events, cap, session, consumer, received, input>>

\* scanner.Scan() returns false: no token and the read error is set. parse
\* returns scanner.Err(), which is nil for io.EOF.
ScanEnd ==
  /\ pc = "scan"
  /\ ~splitLines(buf, serr # "none").ok
  /\ serr # "none"
  /\ buf' = <<>>
  /\ err' = IF serr = "EOF" THEN "nil" ELSE serr
  /\ pc' = "done"
  /\ Deferred
  /\ UNCHANGED <<raw, serr, stream, ev, events, cap, history,
                 session, consumer, log>>

\* Send on a channel that makes room by dropping its oldest event.
SendLossy ==
  /\ pc = "send"
  /\ cap > 0
  /\ events' = IF Len(events) < cap THEN Append(events, ev)
               ELSE Append(Tail(events), ev)
  /\ ev' = NoEvent
  /\ pc' = "scan"
  /\ UNCHANGED <<raw, buf, serr, err, stream, cap, history,
                 session, consumer, log, closed>>

\* Send on a channel that takes the event whether or not it has room.
SendUnbounded ==
  /\ pc = "send"
  /\ cap > 0
  /\ events' = Append(events, ev)
  /\ ev' = NoEvent
  /\ pc' = "scan"
  /\ UNCHANGED <<raw, buf, serr, err, stream, cap, history,
                 session, consumer, log, closed>>

\* s.events <- event on a channel with room in its buffer.
Send ==
  /\ pc = "send"
  /\ Len(events) < cap
  /\ events' = Append(events, ev)
  /\ ev' = NoEvent
  /\ pc' = "scan"
  /\ UNCHANGED <<raw, buf, serr, err, stream, cap, history,
                 session, consumer, log, closed>>

\* What the consumer holds after it received event: a test collects the
\* events it receives.
Collect(event) == IF session = "test" THEN Append(received, event) ELSE received

\* s.events <- event on an unbuffered channel: the consumer receives it.
SendRecv ==
  /\ pc = "send"
  /\ cap = 0
  /\ consumer = "receiving"
  /\ received' = Collect(ev)
  /\ ev' = NoEvent
  /\ pc' = "scan"
  /\ UNCHANGED <<raw, buf, serr, err, stream, events, cap, history,
                 session, consumer, dispatched, input, closed>>

\* The consumer receives from Events().
Recv ==
  /\ consumer = "receiving"
  /\ Len(events) > 0
  /\ received' = Collect(Head(events))
  /\ events' = Tail(events)
  /\ UNCHANGED <<pc, raw, buf, serr, err, stream, ev, cap, history,
                 session, consumer, dispatched, input, closed>>

\* The consumer stops receiving from Events(): nothing in the Stream records
\* it, and the Stream gives the consumer no way to tell parse.
Abandon ==
  /\ consumer = "receiving"
  /\ consumer' = "gone"
  /\ UNCHANGED <<pc, raw, buf, serr, err, stream, ev, events, cap, history,
                 session, log, closed>>

Next ==
  \/ PeekRead
  \/ PeekFail
  \/ PeekDone
  \/ Fill
  \/ ScanLine
  \/ ScanEnd
  \/ SendRecv

Spec == Init /\ [][Next]_vars

\* ------------------------------------------------- one line, interpreted

\* The longest tail of a line after its field name.
MaxRest == 3

RestBytes == {Colon, Space, ChX}

Rests == UNION { [1..n -> RestBytes] : n \in 0..MaxRest }

\* The longest value of a retry field.
MaxRetry == 2

RetryBytes == {Ch0, Ch1, ChPlus, ChMinus, ChX}

\* The values of retry fields: digits, signs and a byte that is neither.
RetryValues == UNION { [1..n -> RetryBytes] : n \in 1..MaxRetry }

\* Field names that are not quite `data`: `Data`, ` data` and `data `.
OddNames ==
  { <<68, 97, 116, 97>>, <<Space>> \o dataType, dataType \o <<Space>> }

\* Lines: nothing or a field name, then any bytes of RestBytes; retry fields
\* with the values of RetryValues; fields with the names of OddNames.
Lines ==
  { name \o rest :
      name \in {<<>>, dataType, eventTypeName, idType, retryType, <<ChX>>},
      rest \in Rests }
  \cup { retryType \o <<Colon>> \o v : v \in RetryValues }
  \cup { name \o <<Colon, ChX>> : name \in OddNames }

\* The scanner holds one terminated line and the Stream is in a state earlier
\* lines left: parse is about to interpret the line.
InitLine ==
  /\ pc = "scan"
  /\ raw = <<>>
  /\ \E line \in Lines : buf = line \o <<LF>>
  /\ serr = "none"
  /\ err = "nil"
  /\ data \in {<<>>, <<ChX, LF>>}
  /\ eventType \in {<<>>, <<ChX>>}
  /\ lastEventID \in {<<>>, <<ChX>>}
  /\ reconnectionTime \in {0, 1}
  /\ ev = NoEvent
  /\ events = <<>>
  /\ cap = 0
  /\ hData = IF data = <<>> THEN <<>> ELSE << <<ChX>> >>
  /\ hEvent = eventType
  /\ hId = lastEventID
  /\ session = "New"
  /\ consumer = "receiving"
  /\ dispatched = <<>>
  /\ received = <<>>
  /\ input = <<>>
  /\ readerClosed = 0
  /\ eventsClosed = 0

NextLine ==
  \/ ScanLine
  \/ SendRecv

SpecLine == InitLine /\ [][NextLine]_vars

\* ------------------------------------------------- a Stream under test

\* The most blocks of lines in the input of a test.
MaxBlocks == 2

\* Blocks of lines as the test cases have them: an event of the default type,
\* an event with a type, an event with empty data, and a data field that ends
\* at its colon.
Blocks ==
  { dataType \o <<Colon, ChX, LF, LF>>,
    eventTypeName \o <<Colon, ChX, LF>> \o dataType \o <<Colon, ChX, LF, LF>>,
    dataType \o <<LF, LF>>,
    dataType \o <<Colon, LF>> }

RECURSIVE Flatten(_)
Flatten(bs) == IF Len(bs) = 0 THEN <<>> ELSE bs[1] \o Flatten(Tail(bs))

\* The inputs of the tests: no, one or two byte-order marks, then blocks.
TestInputs ==
  { bom \o Flatten(bs) :
      bom \in {<<>>, utf8BOM, utf8BOM \o utf8BOM},
      bs \in UNION { [1..n -> Blocks] : n \in 0..MaxBlocks } }

\* runTestCase: a Stream literal with a channel of a chosen capacity, parse
\* called on a strings.Reader. bufio's first read, inside Peek, takes the
\* whole input; every later read finds the reader at its end.
InitTest ==
  /\ pc = "peek"
  /\ input \in TestInputs
  /\ raw = input
  /\ buf = <<>>
  /\ serr = "none"
  /\ err = "nil"
  /\ data = <<>>
  /\ eventType = <<>>
  /\ lastEventID = <<>>
  /\ reconnectionTime = 0
  /\ ev = NoEvent
  /\ events = <<>>
  /\ cap \in 0..MaxCap
  /\ hData = <<>>
  /\ hEvent = <<>>
  /\ hId = <<>>
  /\ session = "test"
  /\ consumer = "receiving"
  /\ dispatched = <<>>
  /\ received = <<>>
  /\ readerClosed = 0
  /\ eventsClosed = 0

NextTest ==
  \/ PeekFail
  \/ PeekDone
  \/ Fill
  \/ ScanLine
  \/ ScanEnd
  \/ Send
  \/ SendRecv
  \/ Recv
  \/ Abandon

SpecTest == InitTest /\ [][NextTest]_vars

\* The steps of the goroutine that runs parse.
ParseStep ==
  PeekFail \/ PeekDone \/ Fill \/ ScanLine \/ ScanEnd \/ Send \/ SendRecv

\* The scheduler runs parse while it can take a step (the reader of a test
\* answers every read), and a consumer that has not left takes what the
\* channel holds. Nothing makes the consumer leave or stay.
FairTest == SpecTest /\ WF_vars(ParseStep) /\ WF_vars(Recv)

\* ----------------------------------------------------------------- claims

\* The token the scanner would yield from its buffer now.
Token == splitLines(buf, serr # "none")

EndsWithLF(s) == Len(s) > 0 /\ s[Len(s)] = LF

\* The step sends a new event: dispatch has reached its send.
EmitStep == pc # "send" /\ pc' = "send"

\* C1: every line splitLines yields is the buffer cut at its first CRLF, lone
\* LF or lone CR, and holds no terminator byte (no yielded line ends in CR).
C1_LinesExcludeTerminators ==
  (pc = "scan" /\ Token.ok) =>
     /\ Token.token = Take(buf, FirstTerminator(buf) - 1)
     /\ \A i \in 1..Len(Token.token) : Token.token[i] \notin {CR, LF}

\* C2: interpret completes normally on every line the framer yields: parse
\* never stops in a run-time panic.
C2_InterpretTotal == pc # "panic"

\* The scanner is about to yield an empty line: the next step dispatches.
BlankLine == pc = "scan" /\ Token.ok /\ Len(Token.token) = 0

\* v1 LF v2 LF ... LF vk.
RECURSIVE JoinLF(_)
JoinLF(vs) ==
  IF Len(vs) = 0 THEN <<>>
  ELSE IF Len(vs) = 1 THEN vs[1]
  ELSE vs[1] \o <<LF>> \o JoinLF(Tail(vs))

\* C3 as stated: no emitted event's Data ends with a line feed.
C3_NoTrailingLF == pc = "send" => ~EndsWithLF(ev.Data)

\* C3, amended: every emitted event's Data is the data buffer with exactly one
\* trailing line feed removed; it ends with a line feed exactly when the last
\* of two or more data fields since the previous blank line had an empty value.
C3_OneTrailingLFRemoved ==
  [][EmitStep =>
       /\ ev'.Data \o <<LF>> = data
       /\ EndsWithLF(ev'.Data) <=>
            (Len(hData) >= 2 /\ hData[Len(hData)] = <<>>)]_vars

\* An event whose Data is a single line feed is being sent.
C3_Witness == pc = "send" /\ ev.Data = <<LF>>

\* C4: a blank line after k >= 1 data fields with values v1..vk emits one
\* event whose Data is v1 LF v2 LF ... LF vk.
C4_DataJoined ==
  [][(BlankLine /\ Len(hData) >= 1) =>
       /\ pc' = "send"
       /\ ev'.Data = JoinLF(hData)]_vars

\* The event of two data fields, joined by one line feed, is being sent.
C4_Witness == pc = "send" /\ ev.Data = <<ChX, LF, ChX>>

\* C5: an emitted event's Type is the value of the last event field since the
\* previous blank line if that value is not empty, and "message" otherwise.
C5_EventType ==
  [][EmitStep =>
       ev'.Type = IF hEvent # <<>> THEN hEvent ELSE messageType]_vars

\* An event is being sent whose type an event field named.
C5_Witness == pc = "send" /\ ev.Type = <<ChX>>

\* The scanner is about to yield the line l.
LineIs(l) == pc = "scan" /\ Token.ok /\ Token.token = l

\* The scanner is about to yield an id field line: `id` alone or `id:...`.
IdLine ==
  /\ pc = "scan" /\ Token.ok
  /\ Len(Token.token) >= Len(idType)
  /\ Take(Token.token, Len(idType)) = idType
  /\ Len(Token.token) > Len(idType) => Token.token[Len(idType) + 1] = Colon

\* C6: lastEventID is the value of the most recent id field processed (empty
\* if there was none), only an id field line changes it, and a blank line
\* changes neither it nor reconnectionTime.
C6_LastEventIDPersists ==
  /\ [](lastEventID = hId)
  /\ [][/\ lastEventID' # lastEventID => IdLine
        /\ BlankLine => /\ lastEventID' = lastEventID
                        /\ reconnectionTime' = reconnectionTime]_vars

\* An event is being sent (a blank line was dispatched) and the id and the
\* reconnection time set before it are still there.
C6_Witness ==
  pc = "send" /\ lastEventID = <<ChX>> /\ hId = <<ChX>> /\ reconnectionTime = 1

\* C7: a blank line with an empty data buffer emits nothing and leaves
\* lastEventID and reconnectionTime as they are; the buffers are empty after
\* it, so a further blank line changes nothing at all.
C7_EmptyDispatchNoOp ==
  [][(BlankLine /\ data = <<>>) =>
       /\ pc' = "scan"
       /\ ev' = ev
       /\ events' = events
       /\ lastEventID' = lastEventID
       /\ reconnectionTime' = reconnectionTime
       /\ data' = <<>>
       /\ eventType' = <<>>
       /\ (eventType = <<>> => stream' = stream)]_vars

\* A blank line is about to be dispatched with an empty data buffer, while an
\* event type, an id and a reconnection time are set.
C7_Witness ==
  /\ BlankLine /\ data = <<>> /\ eventType = <<ChX>>
  /\ lastEventID = <<ChX>> /\ reconnectionTime = 1

\* The scanner is about to yield a comment line.
CommentLine ==
  pc = "scan" /\ Token.ok /\ Len(Token.token) > 0 /\ Token.token[1] = Colon

Consumed == Take(buf, Len(buf) - Len(buf'))

\* C9: an event is emitted exactly by a blank line processed while the data
\* buffer is not empty; only bytes up to a line terminator are ever
\* interpreted, and the end of the stream emits nothing and interprets nothing.
C9_EmitOnlyOnBlankLine ==
  [][/\ EmitStep <=> (BlankLine /\ data # <<>>)
     /\ (stream' # stream \/ history' # history \/ pc' \in {"send", "panic"}) =>
          /\ pc = "scan"
          /\ Len(buf') < Len(buf)
          /\ Consumed[Len(Consumed)] \in {CR, LF}
     /\ pc' = "done" => (stream' = stream /\ ev' = ev /\ events' = events)]_vars

\* The stream ended without error while data fields were pending: parse is
\* done, the data is still in the buffer and no event is being sent.
C9_Witness ==
  pc = "done" /\ err = "nil" /\ data = <<ChX, LF>> /\ ev = NoEvent

\* The state process leaves when called with the field name f and the value v.
Applied(f, v) ==
  /\ pc' = "scan"
  /\ f = dataType => data' = data \o v \o <<LF>>
  /\ f = eventTypeName => eventType' = v
  /\ f = idType => lastEventID' = v

\* C10: a field line is split at its first colon only, one space after the
\* colon is removed, and a line without a colon is a field with an empty value.
C10_FieldValueSplit ==
  [][\A f \in {dataType, eventTypeName, idType} :
       /\ LineIs(f) => Applied(f, <<>>)
       /\ \A v \in Rests :
            /\ LineIs(f \o <<Colon, Space>> \o v) => Applied(f, v)
            /\ (LineIs(f \o <<Colon>> \o v) /\ (v = <<>> \/ v[1] # Space))
                 => Applied(f, v)]_vars

\* The same, for the lines that hold a byte after their first colon.
C10_SplitWhenValueFollows ==
  [][\A f \in {dataType, eventTypeName, idType} :
       /\ LineIs(f) => Applied(f, <<>>)
       /\ \A v \in Rests :
            /\ LineIs(f \o <<Colon, Space>> \o v) => Applied(f, v)
            /\ (LineIs(f \o <<Colon>> \o v) /\ v # <<>> /\ v[1] # Space)
                 => Applied(f, v)]_vars

StartsWithBOM(s) == Len(s) >= Len(utf8BOM) /\ Take(s, Len(utf8BOM)) = utf8BOM

\* No byte of s is a byte of the byte-order mark.
NoBOMByte(s) == \A i \in 1..Len(s) : s[i] \notin {utf8BOM[1], utf8BOM[2]}

\* C11: the Peek for the mark discards exactly the two bytes of a leading
\* byte-order mark and nothing else (no byte if the input does not start with
\* one), and leaves the state it would leave for the input without the mark;
\* afterwards every byte goes through the validator, so no byte of a mark
\* reaches a field or an event, and a second mark is not stripped: it ends
\* parse with the encoding error before any event.
C11_BOMDiscardedOnce ==
  /\ [][(pc = "peek" /\ pc' = "scan") =>
          /\ raw = input
          /\ raw' = IF StartsWithBOM(input)
                    THEN Drop(input, Len(utf8BOM)) ELSE input
          /\ UNCHANGED <<buf, serr, err, stream, ev, events, cap, history,
                         dispatched, received, closed>>]_vars
  /\ [][pc # "peek" =>
          \/ raw' = raw
          \/ /\ raw' = <<>>
             /\ buf' = buf \o Validated(raw).bytes
             /\ serr' = Validated(raw).err]_vars
  /\ [](/\ NoBOMByte(buf) /\ NoBOMByte(data) /\ NoBOMByte(eventType)
        /\ NoBOMByte(lastEventID)
        /\ \A i \in 1..Len(dispatched) :
             NoBOMByte(dispatched[i].Type) /\ NoBOMByte(dispatched[i].Data))
  /\ []((pc = "done" /\ StartsWithBOM(input)
           /\ StartsWithBOM(Drop(input, Len(utf8BOM))))
          => (err = "ErrInvalidUTF8" /\ dispatched = <<>>))

\* The test case "utf-8 BOM is ignored": the input was a byte-order mark and
\* `data:x`, parse returned nil and dispatched the one event {message, x}.
C11_Witness ==
  /\ pc = "done" /\ err = "nil"
  /\ input = utf8BOM \o dataType \o <<Colon, ChX, LF, LF>>
  /\ dispatched = << Event(messageType, <<ChX>>) >>

\* The reader returned a byte that is not UTF-8: the validator met it, or it
\* is among the bytes Peek buffered.
SawInvalid ==
  \/ serr = "ErrInvalidUTF8"
  \/ \E i \in 1..Len(raw) : raw[i] >= RuneSelf

\* C12: every input with a byte that is not UTF-8, the input of that single
\* byte included, ends parse with the encoding error and no other error
\* (unless the reader itself failed first).
C12_InvalidEncodingFatal ==
  (pc = "done" /\ SawInvalid /\ err # "ReadError") => err = "ErrInvalidUTF8"

\* The same for the inputs that get past Peek (two bytes or more): parse
\* returns the encoding error, and once the validator has met the byte the
\* scanner gets no further byte.
C12_FatalPastPeek ==
  /\ []((pc = "done" /\ serr = "ErrInvalidUTF8") => err = "ErrInvalidUTF8")
  /\ [][serr = "ErrInvalidUTF8" =>
          /\ serr' = serr
          /\ Len(buf') <= Len(buf)]_vars

\* The reader reported the end of the stream, to Peek or to the scanner.
StreamEnded == serr = "EOF" \/ (serr = "none" /\ err = "EOF")

\* C13: every well-encoded stream that simply ends, the empty stream and the
\* streams of one byte included, makes parse close the events channel and
\* return no error.
C13_CleanCompletion ==
  (pc = "done" /\ StreamEnded /\ ~SawInvalid) =>
     (err = "nil" /\ eventsClosed = 1)

\* The same for the streams of two bytes or more.
C13_CleanPastPeek ==
  (pc = "done" /\ serr = "EOF") => (err = "nil" /\ eventsClosed = 1)

IsPrefix(a, b) == Len(a) <= Len(b) /\ Take(b, Len(a)) = a

\* parse has returned or panicked.
Terminated == pc \in {"done", "panic"}

C15_AbandonTerminates ==
  (consumer = "gone") ~> (Terminated /\ readerClosed = 1)

\* What the code does instead: with the consumer gone and no room in the
\* channel, the send never completes and nothing is closed.
C15_BlockedOnSend ==
  [][(consumer = "gone" /\ pc = "send" /\ Len(events) = cap) =>
       (pc' = "send" /\ UNCHANGED closed)]_vars

\* The event dispatch holds at its send, if any.
Pending == IF pc = "send" THEN <<ev>> ELSE <<>>

\* C16: the channel never holds more than cap events; the dispatched events
\* not yet received are those in the channel and the one being sent, in
\* order; while dispatch is at its send no line is interpreted, and the send
\* completes only into a free place of the channel or, on an unbuffered
\* channel, into the hands of the consumer.
C16_Backpressure ==
  /\ [](Len(events) <= cap)
  /\ [](dispatched = received \o events \o Pending)
  /\ [][pc = "send" =>
          /\ UNCHANGED <<buf, stream, history, dispatched>>
          /\ pc' # "send" =>
               IF Len(events) < cap
               THEN events' = Append(events, ev) /\ received' = received
               ELSE /\ cap = 0
                    /\ events' = events /\ received' = Append(received, ev)]_vars

\* The channel of capacity one is full and dispatch is blocked sending the
\* next, different, event; the consumer has received nothing yet.
C16_Witness ==
  /\ pc = "send" /\ cap = 1 /\ Len(events) = 1
  /\ ev # events[1] /\ received = <<>> /\ consumer = "receiving"

\* C17: right after every blank line, whether it emitted an event or not, the
\* data buffer and the event type buffer are both empty; the reset is done
\* when dispatch reaches its send, before the consumer can see the event.
C17_ResetTogether ==
  /\ [][BlankLine => (data' = <<>> /\ eventType' = <<>>)]_vars
  /\ [](pc = "send" => (data = <<>> /\ eventType = <<>>))
  /\ [](/\ data # <<>> => hData # <<>>
        /\ eventType = hEvent)

\* An event with data and a type of its own is being sent, not yet received,
\* and both buffers are already empty.
C17_Witness ==
  /\ pc = "send" /\ ev = Event(<<ChX>>, <<ChX>>)
  /\ data = <<>> /\ eventType = <<>> /\ events = <<>>

\* The scanner is about to yield a field line that interpret passes to
\* process.
FieldLine ==
  /\ pc = "scan" /\ Token.ok /\ Len(Token.token) > 0
  /\ Token.token[1] # Colon
  /\ ~splitField(Token.token).panic

\* The name and the value process is called with for the line the scanner is
\* about to yield.
Field == splitField(Token.token)

\* C18: a field line emits no event, and each field name, matched exactly,
\* changes its own field only: `event` the event type buffer, `data` the data
\* buffer, `id` the last event ID buffer, `retry` at most the reconnection
\* time; any other name (`Data`, ` data`, `data `, the empty name) changes
\* nothing.
C18_ProcessFrame ==
  /\ [][FieldLine =>
          /\ pc' = "scan" /\ ev' = ev /\ events' = events
          /\ Field.field = eventTypeName =>
               /\ eventType' = Field.value
               /\ UNCHANGED <<data, lastEventID, reconnectionTime>>
          /\ Field.field = dataType =>
               /\ data' = data \o Field.value \o <<LF>>
               /\ UNCHANGED <<eventType, lastEventID, reconnectionTime>>
          /\ Field.field = idType =>
               /\ lastEventID' = Field.value
               /\ UNCHANGED <<data, eventType, reconnectionTime>>
          /\ Field.field = retryType =>
               UNCHANGED <<data, eventType, lastEventID>>
          /\ Field.field \notin {eventTypeName, dataType, idType, retryType} =>
               UNCHANGED stream]_vars
  /\ [](\A v \in Rests :
          LET st == Store(data, eventType, lastEventID, reconnectionTime)
          IN process(st, <<>>, v) = st)

\* The line `Data:x` is about to be interpreted while every buffer holds a
\* value.
C18_Witness ==
  /\ LineIs(<<68, 97, 116, 97, Colon, ChX>>)
  /\ data # <<>> /\ eventType # <<>> /\ lastEventID # <<>>
  /\ reconnectionTime = 1

AllDigits(v) == Len(v) > 0 /\ \A i \in 1..Len(v) : IsDigit(v[i])

\* C19: a retry field sets the reconnection time to N exactly when its value
\* is only ASCII digits that denote N; any other value, one with a sign
\* included, leaves the reconnection time as it is; a blank line keeps it.
C19_RetryDigitsOnly ==
  [][/\ \A v \in RetryValues :
          LineIs(retryType \o <<Colon>> \o v) =>
            reconnectionTime' = IF AllDigits(v) THEN DigitsValue(v)
                                ELSE reconnectionTime
     /\ LineIs(retryType) => reconnectionTime' = reconnectionTime
     /\ BlankLine => reconnectionTime' = reconnectionTime]_vars

\* What the code does: the value may start with one sign; it is ignored if
\* it denotes a negative number.
C19_RetryAtoi ==
  [][/\ \A v \in RetryValues :
          LineIs(retryType \o <<Colon>> \o v) =>
            reconnectionTime' =
              IF \/ AllDigits(v)
                 \/ /\ v[1] \in {ChPlus, ChMinus} /\ AllDigits(Tail(v))
                    /\ (v[1] = ChMinus => DigitsValue(Tail(v)) = 0)
              THEN DigitsValue(IF AllDigits(v) THEN v ELSE Tail(v))
              ELSE reconnectionTime
     /\ LineIs(retryType) => reconnectionTime' = reconnectionTime
     /\ BlankLine => reconnectionTime' = reconnectionTime]_vars

\* C20: however parse ends (end of stream, failure of Peek, encoding error,
\* read error), the reader and the events channel have each been closed
\* exactly once, and not before; parse returns the error that ended it (nil
\* for the end of the stream met by the scanner); once the channel is closed
\* nothing is sent on it and nothing more is interpreted.
C20_ReleasedOnExit ==
  /\ [](Terminated <=> (readerClosed = 1 /\ eventsClosed = 1))
  /\ [](~Terminated => (readerClosed = 0 /\ eventsClosed = 0))
  /\ [](pc = "done" =>
          err = IF serr = "none" THEN err
                ELSE IF serr = "EOF" THEN "nil" ELSE serr)
  /\ []((pc = "done" /\ serr = "none") => err \in ReadErrors)
  /\ [][eventsClosed >= 1 =>
          /\ pc' = pc /\ UNCHANGED <<closed, err, stream, buf, dispatched>>
          /\ Len(events') <= Len(events)]_vars

\* The reader failed while the scanner was reading, after an id field had
\* been interpreted: parse returned the read error, and the reader and the
\* channel are each closed once.
C20_Witness ==
  /\ pc = "done" /\ serr = "ReadError" /\ err = "ReadError"
  /\ readerClosed = 1 /\ eventsClosed = 1 /\ lastEventID # <<>>

====
